---- MODULE Spec2Model ----
(***************************************************************************)
(* Model of main.py: the sentinel (watch) loop of main(), process_batch,   *)
(* read_single_file, analyze_with_ai, detect_provider, save_report and     *)
(* sanitize_filename.  Strings are sequences of one-character strings, so  *)
(* that startswith/endswith/strip/split are computed, not assumed.         *)
(***************************************************************************)
EXTENDS Integers, Sequences, FiniteSets, TLC

\* ------------------------------------------------------------------ bounds
\* number of iterations of `while True` the model follows
MaxTicks == 2
\* number of changes the environment makes to the watched directory
MaxFsOps == 3
\* largest --threshold value tried (the smallest is 0)
MaxThreshold == 2
\* largest number of log files given on the command line
MaxFiles == 2
\* largest number of lines of a text file, and largest --lines value tried
MaxLines == 3
\* longest --output name tried
MaxNameLen == 3

\* ------------------------------------------------------- string literals
FrameOpen == <<"\n","-","-","-"," ","F","I","L","E",":"," ">>
FrameMid == <<" ","-","-","-","\n">>
Newline == <<"\n">>
\* the cross-mark character U+274C that starts both failure texts
CrossMark == "U+274C"
ApiErrorPrefix == <<CrossMark," ","A","P","I"," ","E","r","r","o","r",":"," ">>
InvalidKeyMsg == <<CrossMark," ","E","r","r","o","r",":"," ","I","n","v","a","l","i","d"," ","A","P","I"," ","K","e","y"," ","f","o","r","m","a","t",".">>
\* mutant: a fallback name with a character the filter removes
FallbackName_Spaced == <<"n","o"," ","n","a","m","e">>
FallbackName == <<"u","n","n","a","m","e","d","_","r","e","p","o","r","t",".","t","x","t">>
TxtExt == <<".","t","x","t">>
JsonExt == <<".","j","s","o","n">>
GooglePrefix == <<"A","I","z","a">>
AnthropicPrefix == <<"s","k","-","a","n","t">>
OpenAiPrefix == <<"s","k","-">>
Uppers == <<"A","B","C","D","E","F","G","H","I","J","K","L","M","N","O","P","Q","R","S","T","U","V","W","X","Y","Z">>
Lowers == <<"a","b","c","d","e","f","g","h","i","j","k","l","m","n","o","p","q","r","s","t","u","v","w","x","y","z">>
DigitChars == <<"0","1","2","3","4","5","6","7","8","9">>
Whitespace == {" ", "\n", "\t", "\r"}

\* --------------------------------------------------------- str operations
Range(s) == {s[i] : i \in DOMAIN s}

StartsWith(s, pre) ==
    /\ Len(s) >= Len(pre)
    /\ SubSeq(s, 1, Len(pre)) = pre

EndsWith(s, suf) ==
    /\ Len(s) >= Len(suf)
    /\ SubSeq(s, Len(s) - Len(suf) + 1, Len(s)) = suf

LowerChar(c) ==
    IF \E i \in DOMAIN Uppers : Uppers[i] = c
    THEN Lowers[CHOOSE i \in DOMAIN Uppers : Uppers[i] = c]
    ELSE c

Lower(s) == [i \in DOMAIN s |-> LowerChar(s[i])]

\* str.strip(): leading and trailing whitespace removed
Strip(s) ==
    LET keep == {i \in DOMAIN s : s[i] \notin Whitespace}
    IN  IF keep = {} THEN <<>>
        ELSE SubSeq(s, CHOOSE i \in keep : \A j \in keep : i <= j,
                       CHOOSE i \in keep : \A j \in keep : i >= j)

\* "".join(lines)
RECURSIVE Join(_)
Join(lines) ==
    IF lines = <<>> THEN <<>> ELSE Head(lines) \o Join(Tail(lines))

\* str(n) for an int n >= 0
RECURSIVE IntStr(_)
IntStr(n) ==
    IF n < 10 THEN <<DigitChars[n + 1]>>
    ELSE IntStr(n \div 10) \o <<DigitChars[(n % 10) + 1]>>

\* s.split(sep)[0]: the part of s before the first occurrence of sep
SplitFirst(s, sep) ==
    LET hits == {i \in 1..(Len(s) - Len(sep) + 1) :
                     SubSeq(s, i, i + Len(sep) - 1) = sep}
    IN  IF hits = {} THEN s
        ELSE SubSeq(s, 1, (CHOOSE i \in hits : \A j \in hits : i <= j) - 1)

\* os.path.basename(p): the part of p after the last "/"
Basename(p) ==
    LET slashes == {i \in DOMAIN p : p[i] = "/"}
    IN  IF slashes = {} THEN p
        ELSE SubSeq(p, (CHOOSE i \in slashes : \A j \in slashes : i >= j) + 1, Len(p))

\* os.path.join(d, f) for a relative f
PathJoin(d, f) ==
    IF d # <<>> /\ d[Len(d)] = "/" THEN d \o f ELSE d \o <<"/">> \o f

\* ------------------------------------------------------------ filesystem
\* the directory given to --watch, and the names that may appear in it
WatchDir == <<"w">>
aLog == <<"a",".","l","o","g">>
bLog == <<"b",".","l","o","g">>
cLog == <<"c",".","l","o","g">>
Names == {aLog, bLog, cLog}

\* what a name of the directory can be: nothing, a subdirectory, or a regular
\* file with its lines; ok = FALSE is a file whose bytes do not decode
Absent == [kind |-> "absent", ok |-> FALSE, lines |-> <<>>]
Dir == [kind |-> "dir", ok |-> FALSE, lines |-> <<>>]
TextFile == [kind |-> "file", ok |-> TRUE, lines |-> << <<"x","\n">>, <<"y","\n">> >>]
EmptyFile == [kind |-> "file", ok |-> TRUE, lines |-> <<>>]
BadFile == [kind |-> "file", ok |-> FALSE, lines |-> <<>>]
Created == {Dir, TextFile, EmptyFile, BadFile}
Entries == Created \cup {Absent}

Exists(e) == e.kind # "absent"

\* mutant: os.path.exists in place of os.path.isfile
IsFile_Exists(e) == e.kind # "absent"

\* mutant: no file-type check
IsFile_Always(e) == TRUE

IsFile(e) == e.kind = "file"

\* ------------------------------------------------------- pure functions
\* re.sub(r'[^a-zA-Z0-9_.-]', '', s)
SafeChars == Range(Uppers) \cup Range(Lowers) \cup Range(DigitChars) \cup {"_", ".", "-"}

sanitize_filename(filename) ==
    LET safe_name == SelectSeq(Basename(filename), LAMBDA c : c \in SafeChars)
    IN  IF safe_name = <<>> THEN FallbackName ELSE safe_name

detect_provider(api_key) ==
    IF StartsWith(api_key, GooglePrefix) THEN "google"
    ELSE IF StartsWith(api_key, AnthropicPrefix) THEN "anthropic"
    ELSE IF StartsWith(api_key, OpenAiPrefix) THEN "openai"
    ELSE "unknown"

\* json.load on the text of a file, for the documents {}, [] and a
\* non-negative integer; any other text is a syntax error
JsonCompact(text) == SelectSeq(text, LAMBDA c : c \notin Whitespace)
JsonValid(text) ==
    \/ JsonCompact(text) \in {<<"{","}">>, <<"[","]">>}
    \/ /\ Strip(text) # <<>>
       /\ Range(Strip(text)) \subseteq Range(DigitChars)
       /\ (Len(Strip(text)) > 1 => Strip(text)[1] # "0")
\* json.dumps(json.load(f), indent=2) of a valid document
JsonDumps(text) ==
    IF JsonCompact(text) \in {<<"{","}">>, <<"[","]">>}
    THEN JsonCompact(text) ELSE Strip(text)

\* mutant: lines[:line_limit], the first lines of the file
TailLines_Head(lines, line_limit) ==
    IF line_limit > 0 /\ Len(lines) > line_limit
    THEN SubSeq(lines, 1, line_limit)
    ELSE lines

\* lines[-line_limit:] when line_limit > 0 and len(lines) > line_limit
TailLines(lines, line_limit) ==
    IF line_limit > 0 /\ Len(lines) > line_limit
    THEN SubSeq(lines, Len(lines) - line_limit + 1, Len(lines))
    ELSE lines

\* whether the body of the try block of read_single_file raises on entry e
ReadRaises(filepath, e) ==
    \/ e.kind = "dir"
    \/ ~e.ok
    \/ EndsWith(Lower(filepath), JsonExt) /\ ~JsonValid(Join(e.lines))

ReadContent(filepath, e, line_limit) ==
    IF EndsWith(Lower(filepath), JsonExt)
    THEN JsonDumps(Join(e.lines))
    ELSE Join(TailLines(e.lines, line_limit))

\* mutant: the except clause returns the frame of the file with no content
read_single_file_FrameOnFailure(filepath, e, line_limit) ==
    IF ~Exists(e) THEN <<>>
    ELSE FrameOpen \o filepath \o FrameMid
             \o (IF ReadRaises(filepath, e) THEN <<>>
                 ELSE ReadContent(filepath, e, line_limit)) \o Newline

read_single_file(filepath, e, line_limit) ==
    IF ~Exists(e) THEN <<>>
    ELSE IF ReadRaises(filepath, e) THEN <<>>
    ELSE FrameOpen \o filepath \o FrameMid
             \o ReadContent(filepath, e, line_limit) \o Newline

\* what the vendor SDK call does: it returns the text, or raises an Exception
Response == <<"O","K">>
ErrText == <<"e">>
BackendOutcomes == {"ok", "raise"}

\* the try block of analyze_with_ai: the text it returns, or raised = TRUE
\* with the exception's message
CallBackend(api_key, outcome) ==
    IF detect_provider(api_key) = "unknown"
    THEN [raised |-> FALSE, text |-> InvalidKeyMsg]
    ELSE IF outcome = "raise"
    THEN [raised |-> TRUE, text |-> ErrText]
    ELSE [raised |-> FALSE, text |-> Response]

\* mutant: no except clause around the vendor call
analyze_with_ai_NoExcept(api_key, outcome) == CallBackend(api_key, outcome)

\* analyze_with_ai: `except Exception as e` turns a raise into a returned text
analyze_with_ai(api_key, outcome) ==
    LET r == CallBackend(api_key, outcome)
    IN  IF r.raised
        THEN [raised |-> FALSE, text |-> ApiErrorPrefix \o r.text]
        ELSE r

\* the name process_batch gives save_report: under --watch the part of the
\* output name before ".txt", "_", the time in seconds and ".txt"
Outfile(output, watch, t) ==
    IF watch THEN SplitFirst(output, TxtExt) \o <<"_">> \o IntStr(t) \o TxtExt
    ELSE output

\* the path save_report opens for writing
ReportsDir == <<"r","e","p","o","r","t","s">>
save_report(report_content, filename) ==
    [path |-> PathJoin(ReportsDir, sanitize_filename(filename)),
     text |-> report_content]

\* ----------------------------------------------------------------- state
VARIABLES
    fs,         \* the watched directory: name -> entry
    fsops,      \* changes the environment has made to it
    threshold,  \* args.threshold
    lines,      \* args.lines
    output,     \* args.output, <<>> when not given
    api_key,    \* the credential main resolved
    watch,      \* whether --watch was given
    seen,       \* main: seen
    pending,    \* main: pending
    todo,       \* the part of `for f in new_files` still to run, in its order
    pc,         \* where main is
    idx,        \* process_batch: the position of `for f in files`
    data,       \* process_batch: data
    report,     \* process_batch: report
    tick,       \* iterations of `while True` started
    now,        \* int(time.time())
    sigint,     \* whether KeyboardInterrupt was raised in main
    appended,   \* history: every name given to pending.append, in order,
                \* with the iteration it was detected in
    batches,    \* history: the list given to each process_batch call
    calls,      \* history: the log_data of each analyze_with_ai call, and
                \* what the backend did
    printed,    \* history: every report printed
    saved,      \* history: every file save_report wrote
    recreated,  \* history: the names created again after main had seen them
    baseline,   \* history: the names the directory held when main listed it
                \* in line 187
    lost        \* history: the names that were listed, were gone at the
                \* file-type check, and have not been created again since,
                \* with the iteration that happened in

vars == <<fs, fsops, threshold, lines, output, api_key, seen, pending, todo, pc,
          idx, data, report, tick, now, sigint, appended, batches, calls,
          printed, saved, recreated, watch, baseline, lost>>
config == <<threshold, lines, output, api_key, watch>>
history == <<appended, batches, calls, printed, saved, recreated, baseline, lost>>

\* --threshold is type=int with no range check: get_args accepts any integer
Thresholds == 0..MaxThreshold
LineLimits == {0, 1}
NoOutput == <<>>
ReportName == <<"r",".","t","x","t">>
Outputs == {NoOutput, ReportName}
\* one credential of a recognised shape and one of none
GoodKey == OpenAiPrefix \o <<"1">>
BadKey == <<"k","e","y">>
Keys == {GoodKey, BadKey}
\* the --lines, --output and credential combinations tried: every pair of
\* values of two of them occurs
Settings == {<<0, NoOutput, GoodKey>>, <<1, ReportName, GoodKey>>,
             <<1, NoOutput, BadKey>>, <<0, ReportName, BadKey>>}
\* the directory at start-up: empty, or holding one file
InitialDirs == {[n \in Names |-> Absent],
                [n \in Names |-> IF n = cLog THEN TextFile ELSE Absent]}
\* mutant: the loop polls again at once
SleepSecs_None == 3 - 3

SleepSecs == 3

LoopPcs == {"list", "check", "read", "analyze", "render", "clear", "sleep"}
Pcs == LoopPcs \cup {"terminated", "crashed", "done"}

\* mutant: seen starts empty
InitialSeen_Empty(dir) == {}

\* line 187: `seen = set(os.listdir(args.watch))`
InitialSeen(dir) == {n \in DOMAIN dir : Exists(dir[n])}

\* the state when `while True` is first reached
Init ==
    /\ fs \in InitialDirs
    /\ fsops = 0
    /\ threshold \in Thresholds
    /\ \E st \in Settings :
          /\ lines = st[1]
          /\ output = st[2]
          /\ api_key = st[3]
    /\ watch = TRUE
    /\ seen = InitialSeen(fs)
    /\ pending = <<>>
    /\ todo = <<>>
    /\ pc = "list"
    /\ idx = 1
    /\ data = <<>>
    /\ report = <<>>
    /\ tick = 0
    /\ now = 0
    /\ sigint = FALSE
    /\ appended = <<>>
    /\ batches = <<>>
    /\ calls = <<>>
    /\ printed = <<>>
    /\ saved = <<>>
    /\ recreated = {}
    /\ baseline = {n \in Names : Exists(fs[n])}
    /\ lost = {}

\* --------------------------------------------------------- the watch loop
\* every order in which `for f in new_files` can run over the set new_files
RECURSIVE Orders(_)
Orders(S) ==
    IF S = {} THEN {<<>>}
    ELSE UNION {{<<x>> \o rest : rest \in Orders(S \ {x})} : x \in S}

\* mutant: the interrupt is looked at between the sleep and the next poll only
Interruptible_TickBoundary(p) == p \in {"sleep", "list"}

\* the try block of main: KeyboardInterrupt is raised at whichever of its
\* statements is running when the signal arrives
Interruptible(p) == p \in LoopPcs

Steps(p) == pc = p

\* mutant: line 199 left out
SeenAdd_Omitted(s, f) == s

\* seen after `seen.add(f)`
SeenAdd(s, f) == s \cup {f}

\* mutant: `>` for `>=` in line 201
ThresholdMet_Strict(p, t) == Len(p) > t

\* `len(pending) >= args.threshold`
ThresholdMet(p, t) == Len(p) >= t

\* mutant: only the last `threshold` files are handed over
BatchFiles_LastT(p, t) == SubSeq(p, Len(p) - t + 1, Len(p))

\* mutant: only the first `threshold` files are handed over
BatchFiles_FirstT(p, t) == SubSeq(p, 1, t)

\* the files main gives process_batch
BatchFiles(p, t) == p

\* mutant: line 203 left out
PendingReset_Omitted == pending

\* pending after `pending = []`
PendingReset == <<>>

\* mutant: the new frame put in front of the aggregate
Aggregate_Prepend(d, frame) == frame \o d

\* `data += read_single_file(f, args.lines)`
Aggregate(d, frame) == d \o frame

\* mutant: the new path put in front of pending
PendingAppend_Front(p, path) == <<path>> \o p

\* line 198: `pending.append(path)`
PendingAppend(p, path) == Append(p, path)

\* lines 192-193: `new_files = current - seen`
NewFiles ==
    LET current == {n \in Names : Exists(fs[n])}
    IN  current \ seen

\* lines 192-194: the listing, and the new names in the order the loop takes
ListDir ==
    /\ Steps("list")
    /\ tick < MaxTicks
    /\ \E order \in Orders(NewFiles) : todo' = order
    /\ tick' = tick + 1
    /\ pc' = "check"
    /\ UNCHANGED <<fs, fsops, config, seen, pending, idx, data, report, now,
                   sigint, history>>

\* lines 194-199: one iteration of `for f in new_files`
CheckFile ==
    /\ Steps("check")
    /\ todo # <<>>
    /\ LET f == Head(todo)
           path == PathJoin(WatchDir, f)
       IN  IF IsFile(fs[f])
           THEN /\ pending' = PendingAppend(pending, path)
                /\ seen' = SeenAdd(seen, f)
                /\ appended' = Append(appended, [f |-> f, tick |-> tick])
                /\ UNCHANGED lost
           ELSE /\ lost' = IF Exists(fs[f]) THEN lost ELSE lost \cup {[f |-> f, tick |-> tick]}
                /\ UNCHANGED <<pending, seen, appended>>
    /\ todo' = Tail(todo)
    /\ UNCHANGED <<fs, fsops, config, pc, idx, data, report, tick, now, sigint,
                   batches, calls, printed, saved, recreated, baseline>>

\* lines 201-202: the threshold test, and the call of process_batch up to its
\* `for f in files`
CheckThreshold ==
    /\ Steps("check")
    /\ todo = <<>>
    /\ IF ThresholdMet(pending, threshold)
       THEN /\ batches' = Append(batches, BatchFiles(pending, threshold))
            /\ idx' = 1
            /\ data' = <<>>
            /\ pc' = "read"
       ELSE /\ pc' = "sleep"
            /\ UNCHANGED <<batches, idx, data>>
    /\ UNCHANGED <<fs, fsops, config, seen, pending, todo, report, tick, now,
                   sigint, appended, calls, printed, saved, recreated, baseline,
                   lost>>

\* the list process_batch is working on
Files == batches[Len(batches)]

\* what the filesystem holds at a path
Stat(path) ==
    IF \E n \in DOMAIN fs : PathJoin(WatchDir, n) = path
    THEN fs[CHOOSE n \in DOMAIN fs : PathJoin(WatchDir, n) = path]
    ELSE Absent

\* line 159: one iteration of `for f in files`
ReadFile ==
    /\ Steps("read")
    /\ idx <= Len(Files)
    /\ data' = Aggregate(data, read_single_file(Files[idx], Stat(Files[idx]), lines))
    /\ idx' = idx + 1
    /\ UNCHANGED <<fs, fsops, config, seen, pending, todo, pc, report, tick,
                   now, sigint, history>>

\* line 161: `if not data.strip(): return`
CheckData ==
    /\ Steps("read")
    /\ idx > Len(Files)
    /\ pc' = IF Strip(data) = <<>> THEN "clear" ELSE "analyze"
    /\ UNCHANGED <<fs, fsops, config, seen, pending, todo, idx, data, report,
                   tick, now, sigint, history>>

\* line 163: the analysis call
Analyze ==
    /\ Steps("analyze")
    /\ \E outcome \in BackendOutcomes :
          LET r == analyze_with_ai(api_key, outcome)
          IN  /\ calls' = Append(calls, [log_data |-> data, outcome |-> outcome])
              /\ IF r.raised
                 THEN pc' = "crashed" /\ UNCHANGED report
                 ELSE pc' = "render" /\ report' = r.text
    /\ UNCHANGED <<fs, fsops, config, seen, pending, todo, idx, data, tick,
                   now, sigint, appended, batches, printed, saved, recreated,
                   baseline, lost>>

\* lines 165-171: the report is printed and, with --output, saved
Render ==
    /\ Steps("render")
    /\ printed' = Append(printed, report)
    /\ saved' = IF output # <<>>
                THEN Append(saved, save_report(report, Outfile(output, watch, now)))
                ELSE saved
    /\ pc' = "clear"
    /\ UNCHANGED <<fs, fsops, config, seen, pending, todo, idx, data, report,
                   tick, now, sigint, appended, batches, calls, recreated,
                   baseline, lost>>

\* line 203: `pending = []`
ClearPending ==
    /\ Steps("clear")
    /\ pending' = PendingReset
    /\ pc' = "sleep"
    /\ UNCHANGED <<fs, fsops, config, seen, todo, idx, data, report, tick, now,
                   sigint, history>>

\* line 204: time.sleep(3)
Sleep ==
    /\ Steps("sleep")
    /\ now' = now + SleepSecs
    /\ pc' = "list"
    /\ UNCHANGED <<fs, fsops, config, seen, pending, todo, idx, data, report,
                   tick, sigint, history>>

\* mutant: try/except placed inside the body of `while True`
AfterInterrupt_Resume == "sleep"

\* where main goes when the except clause of line 205 has run
AfterInterrupt == "terminated"

\* lines 205-206: the operator presses Ctrl-C, KeyboardInterrupt is raised
\* at the statement main is running, and the except clause catches it
KeyboardInterrupt ==
    /\ pc \in LoopPcs
    /\ Interruptible(pc)
    /\ sigint' = TRUE
    /\ pc' = AfterInterrupt
    /\ UNCHANGED <<fs, fsops, config, seen, pending, todo, idx, data, report,
                   tick, now, history>>

\* ------------------------------------------------------- the environment
\* main looks at the directory in os.listdir (every name), os.path.isfile
\* and open (one name): a change made at any other moment, or to a name the
\* next statement does not look at, is taken just before the statement that
\* first looks at it
Observed(n) ==
    \/ pc = "list"
    \/ pc = "check" /\ todo # <<>> /\ Head(todo) = n
    \/ /\ pc = "read"
       /\ idx <= Len(batches[Len(batches)])
       /\ batches[Len(batches)][idx] = PathJoin(WatchDir, n)

\* something appears in the watched directory
CreateEntry ==
    /\ fsops < MaxFsOps
    /\ \E n \in Names, e \in Created :
          /\ Observed(n)
          /\ ~Exists(fs[n])
          /\ fs' = [fs EXCEPT ![n] = e]
          /\ recreated' = IF n \in seen THEN recreated \cup {n} ELSE recreated
          /\ lost' = {r \in lost : r.f # n}
    /\ fsops' = fsops + 1
    /\ UNCHANGED <<config, seen, pending, todo, pc, idx, data, report, tick,
                   now, sigint, appended, batches, calls, printed, saved,
                   baseline>>

\* something is removed from the watched directory
DeleteEntry ==
    /\ fsops < MaxFsOps
    /\ \E n \in Names :
          /\ Observed(n)
          /\ Exists(fs[n])
          /\ fs' = [fs EXCEPT ![n] = Absent]
    /\ fsops' = fsops + 1
    /\ UNCHANGED <<config, seen, pending, todo, pc, idx, data, report, tick,
                   now, sigint, history>>

Next ==
    \/ ListDir
    \/ CheckFile
    \/ CheckThreshold
    \/ ReadFile
    \/ CheckData
    \/ Analyze
    \/ Render
    \/ ClearPending
    \/ Sleep
    \/ KeyboardInterrupt
    \/ CreateEntry
    \/ DeleteEntry

Spec == Init /\ [][Next]_vars

TypeOK ==
    /\ fs \in [Names -> Entries]
    /\ fsops \in 0..MaxFsOps
    /\ threshold \in Thresholds
    /\ lines \in LineLimits
    /\ output \in Outputs
    /\ api_key \in Keys
    /\ seen \subseteq Names
    /\ pc \in Pcs
    /\ tick \in 0..MaxTicks
    /\ sigint \in BOOLEAN
    /\ watch = TRUE
    /\ baseline \subseteq Names
    /\ lost \subseteq [f : Names, tick : 0..MaxTicks]

\* ------------------------------------------- one call of process_batch
\* lines 212-213: main is given log files on the command line, calls
\* process_batch on them once and returns
dJson == <<"d",".","j","s","o","n">>
BatchNames == {aLog, dJson}
BatchPaths == {PathJoin(WatchDir, n) : n \in BatchNames}

\* a text file of m lines, m <= MaxLines
AllLines == [i \in 1..MaxLines |-> <<DigitChars[i + 1], "\n">>]
TextOf(m) == [kind |-> "file", ok |-> TRUE, lines |-> SubSeq(AllLines, 1, m)]
\* a file whose text is the JSON document {}
JsonFile == [kind |-> "file", ok |-> TRUE, lines |-> << <<"{","\n">>, <<"}","\n">> >>]
BatchEntries == {Absent, Dir, BadFile, JsonFile} \cup {TextOf(m) : m \in 0..MaxLines}

\* args.logfiles: one to MaxFiles paths, repeats allowed
FileLists == UNION {[1..k -> BatchPaths] : k \in 1..MaxFiles}

BatchInit ==
    /\ fs \in [BatchNames -> BatchEntries]
    /\ fsops = 0
    /\ threshold = 1
    /\ lines \in 0..MaxLines
    /\ output \in Outputs
    /\ api_key \in Keys
    /\ watch = FALSE
    /\ seen = {}
    /\ pending = <<>>
    /\ todo = <<>>
    /\ pc = "read"
    /\ idx = 1
    /\ data = <<>>
    /\ report = <<>>
    /\ tick = 0
    /\ now = 0
    /\ sigint = FALSE
    /\ appended = <<>>
    /\ \E files \in FileLists : batches = <<files>>
    /\ calls = <<>>
    /\ printed = <<>>
    /\ saved = <<>>
    /\ recreated = {}
    /\ baseline = {}
    /\ lost = {}

\* process_batch has returned and main ends
Exit ==
    /\ Steps("clear")
    /\ ~watch
    /\ pc' = "done"
    /\ UNCHANGED <<fs, fsops, config, seen, pending, todo, idx, data, report,
                   tick, now, sigint, history>>

BatchNext ==
    \/ ReadFile
    \/ CheckData
    \/ Analyze
    \/ Render
    \/ Exit

BatchSpec == BatchInit /\ [][BatchNext]_vars

\* ---------------------------------------------------- one call of save_report
\* lines 167-171 without --watch: the report is saved under the name given
\* to --output, any non-empty string
NameChars == {"a", ".", "/", " ", "*"}
RequestedNames == UNION {[1..k -> NameChars] : k \in 1..MaxNameLen}

SaveInit ==
    /\ fs = [n \in BatchNames |-> Absent]
    /\ fsops = 0
    /\ threshold = 1
    /\ lines = 0
    /\ output \in RequestedNames
    /\ api_key = GoodKey
    /\ watch = FALSE
    /\ seen = {}
    /\ pending = <<>>
    /\ todo = <<>>
    /\ pc = "render"
    /\ idx = 1
    /\ data = <<>>
    /\ report = Response
    /\ tick = 0
    /\ now = 0
    /\ sigint = FALSE
    /\ appended = <<>>
    /\ batches = <<>>
    /\ calls = <<>>
    /\ printed = <<>>
    /\ saved = <<>>
    /\ recreated = {}
    /\ baseline = {}
    /\ lost = {}

SaveNext ==
    \/ Render
    \/ Exit

SaveSpec == SaveInit /\ [][SaveNext]_vars

\* ------------------------------------------------------------ properties
NoDup(q) == \A i, j \in DOMAIN q : i # j => q[i] # q[j]

RECURSIVE Flatten(_)
Flatten(qs) == IF qs = <<>> THEN <<>> ELSE Head(qs) \o Flatten(Tail(qs))

PathOf(n) == PathJoin(WatchDir, n)
AppendedNames == [i \in DOMAIN appended |-> appended[i].f]
AppendedPaths == [i \in DOMAIN appended |-> PathOf(appended[i].f)]

\* C1: over the loop's lifetime a filename is appended to pending at most
\* once, and a step never appends a filename that is already in seen, also
\* when the file was deleted and created again under the same name.
C1_AppendedAtMostOnce ==
    /\ NoDup(AppendedNames)
    /\ \A n \in Names : PathOf(n) \in Range(pending) => n \in seen
    /\ \A i \in DOMAIN appended : appended[i].f \in seen

\* C1 witness: a file that was detected, then deleted and created again, is
\* in the listing of a later iteration whose detection loop has finished.
C1_Witness ==
    \E n \in recreated :
        /\ n \in Range(AppendedNames)
        /\ IsFile(fs[n])
        /\ pc = "check" /\ todo = <<>>
        /\ \E i \in DOMAIN appended : appended[i].f = n /\ appended[i].tick < tick

\* C2: no path is given to process_batch twice, neither in two triggers nor
\* twice within one triggered batch.
C2_NoPathProcessedTwice == NoDup(Flatten(batches))

\* C2 witness: two triggers with files have happened, and a file of the
\* first batch is still in the directory.
C2_Witness ==
    /\ Len(batches) >= 2
    /\ batches[1] # <<>>
    /\ batches[2] # <<>>
    /\ \E n \in Names : PathOf(n) \in Range(batches[1]) /\ IsFile(fs[n])

\* C3 as claimed: process_batch is never invoked from the watch loop with an
\* empty list, for every --threshold get_args accepts.
C3_NeverEmptyBatch == \A i \in DOMAIN batches : batches[i] # <<>>

\* the positions of s where sub occurs
Occurrences(s, sub) ==
    {i \in 1..(Len(s) - Len(sub) + 1) :
         \A k \in DOMAIN sub : s[i + k - 1] = sub[k]}

Min(S) == CHOOSE x \in S : \A y \in S : x <= y

\* the paths named by the frame headers of an aggregate, in their order
RECURSIVE FramePathsFrom(_, _)
FramePathsFrom(s, opens) ==
    IF opens = {} THEN <<>>
    ELSE LET i == Min(opens)
             start == i + Len(FrameOpen)
             mids == {j \in Occurrences(s, FrameMid) : j >= start}
         IN  <<SubSeq(s, start, Min(mids) - 1)>>
                 \o FramePathsFrom(s, opens \ {i})
FramePaths(s) == FramePathsFrom(s, Occurrences(s, FrameOpen))

\* a is b with some elements left out (b has no duplicates)
IsSubseq(a, b) ==
    /\ NoDup(a)
    /\ Range(a) \subseteq Range(b)
    /\ \A i, j \in DOMAIN a : i < j =>
          (CHOOSE k \in DOMAIN b : b[k] = a[i]) < (CHOOSE k \in DOMAIN b : b[k] = a[j])

IsPrefix(a, b) == Len(a) <= Len(b) /\ SubSeq(b, 1, Len(a)) = a

\* the step is one main takes, not the interrupt
MainStep == pc' \in LoopPcs

\* the names detected in iteration t
DetectedAt(t) == {appended[i].f : i \in {j \in DOMAIN appended : appended[j].tick = t}}

\* C4: at the threshold test of every iteration a trigger fires if and only
\* if len(pending) >= threshold, and nowhere else; a triggered batch ends
\* with pending empty, and pending stays empty until the next iteration
\* starts; with threshold 1 an iteration that detected a file triggers with
\* it in that iteration, so none ends with a file left in pending.
C4_ThresholdCorrect ==
    /\ [][(pc = "check" /\ todo = <<>> /\ MainStep) =>
             /\ (Len(batches') = Len(batches) + 1) <=> (Len(pending) >= threshold)
             /\ pc' = IF Len(pending) >= threshold THEN "read" ELSE "sleep"]_vars
    /\ [][batches' # batches => (pc = "check" /\ todo = <<>>)]_vars
    /\ [][(pc \in {"read", "analyze", "render"} /\ MainStep) =>
             pc' \in {"read", "analyze", "render", "clear"}]_vars
    /\ [][(pc = "clear" /\ MainStep) => (pc' = "sleep" /\ pending' = <<>>)]_vars
    /\ [][(pc = "sleep" /\ MainStep) => (pc' = "list" /\ pending' = pending)]_vars
    /\ [][(threshold = 1 /\ pc = "check" /\ todo = <<>> /\ DetectedAt(tick) # {} /\ MainStep) =>
             /\ pc' = "read"
             /\ Len(batches') = Len(batches) + 1
             /\ \A n \in DetectedAt(tick) : PathOf(n) \in Range(batches'[Len(batches')])]_vars
    /\ [](threshold = 1 /\ pc \in {"sleep", "list"} => pending = <<>>)

\* C4 witness: with threshold 1 two files were detected in the first
\* iteration, which triggered with both, and the second iteration starts
\* with pending empty.
C4_Witness ==
    /\ threshold = 1
    /\ tick = 1
    /\ pc = "list"
    /\ Len(batches) = 1
    /\ Len(batches[1]) = 2
    /\ pending = <<>>

\* C5: every frame that reading a file adds goes to the end of the aggregate,
\* a readable file adds exactly one frame and an unreadable one none; the
\* batches taken together follow the order of first detection, so the frames
\* of every payload given to the backend are in that order.
C5_OrderPreserved ==
    /\ [][(pc = "read" /\ idx' = idx + 1) =>
             FramePaths(data') = FramePaths(data) \o
                 (IF Exists(Stat(Files[idx])) /\ ~ReadRaises(Files[idx], Stat(Files[idx]))
                  THEN <<Files[idx]>> ELSE <<>>)]_vars
    /\ [][batches' # batches => IsPrefix(Flatten(batches'), AppendedPaths')]_vars
    /\ [][calls' # calls =>
            LET frames == FramePaths(data)
            IN  /\ Len(calls') = Len(calls) + 1
                /\ calls'[Len(calls')].log_data = data
                /\ IsSubseq(frames, AppendedPaths)
                /\ IsSubseq(frames, batches[Len(batches)])]_vars

\* C5 witness: a payload whose two frames are b.log then a.log, detected in
\* that order in different iterations, from a batch of three files of which
\* one was unreadable.
C5_Witness ==
    /\ Len(calls) = 1
    /\ FramePaths(calls[1].log_data) = <<PathOf(bLog), PathOf(aLog)>>
    /\ Len(batches[1]) = 3
    /\ \E i, j \in DOMAIN appended :
          /\ appended[i].f = bLog /\ appended[j].f = aLog
          /\ appended[i].tick < appended[j].tick

\* the scenario of C6: threshold 2, a.log detected in the first iteration,
\* b.log and c.log both in the second
C6_Tick1 == threshold = 2 /\ DetectedAt(1) = {aLog}
C6_Tick2 == C6_Tick1 /\ DetectedAt(2) = {bLog, cLog}
AfterTest == {"read", "analyze", "render", "clear", "sleep"}

\* C6 as claimed: the second iteration triggers one batch holding a.log,
\* b.log, c.log in exactly that order.
C6_Original ==
    (C6_Tick2 /\ tick = 2 /\ pc \in AfterTest) =>
        batches = << <<PathOf(aLog), PathOf(bLog), PathOf(cLog)>> >>

\* C6 amended: in the scenario, the first iteration ends with pending =
\* [a.log] and no trigger; the second triggers one batch that is the whole of
\* pending: a.log first, then b.log and c.log in the order the loop detected
\* them (either order); pending is [] when the batch is over.
C6_WholePendingHandedOver ==
    /\ (C6_Tick1 /\ tick = 1 /\ pc \in {"sleep", "list"}) =>
          (pending = <<PathOf(aLog)>> /\ batches = <<>>)
    /\ (C6_Tick1 /\ tick = 2 /\ pc = "check") => batches = <<>>
    /\ (C6_Tick2 /\ tick = 2 /\ pc \in AfterTest) =>
          /\ Len(batches) = 1
          /\ batches[1] = AppendedPaths
          /\ batches[1] \in {<<PathOf(aLog), PathOf(bLog), PathOf(cLog)>>,
                             <<PathOf(aLog), PathOf(cLog), PathOf(bLog)>>}
          /\ pending = IF pc = "sleep" THEN <<>> ELSE batches[1]

\* C6 witness: the scenario has run to the end of the second iteration.
C6_Witness ==
    /\ C6_Tick2 /\ tick = 2 /\ pc = "sleep"
    /\ batches = << <<PathOf(aLog), PathOf(bLog), PathOf(cLog)>> >>
    /\ pending = <<>>

\* C7 as claimed: while a triggered batch is being read, analysed or
\* reported, the loop does not go to Terminated.
C7_Original ==
    [][(pc \in {"read", "analyze", "render"} => pc' # "terminated")]_vars

\* C7 amended: the interrupt takes effect at whatever statement of the loop
\* is running, also in the middle of a triggered batch: the loop then goes
\* straight to Terminated and nothing more of the batch runs; a batch runs
\* to its end exactly when no interrupt arrives during it.
C7_InterruptAnywhere ==
    /\ [](pc \in LoopPcs => ENABLED KeyboardInterrupt)
    /\ [][(sigint' /\ ~sigint) =>
             /\ pc' = "terminated"
             /\ UNCHANGED <<seen, pending, idx, data, report, history>>]_vars
    /\ [][(pc \in {"read", "analyze", "render"} /\ ~sigint') =>
             pc' \in {"read", "analyze", "render", "clear"}]_vars
    /\ [](pc = "terminated" => sigint)

\* C7 witness: the loop is Terminated with a batch of two files of which only
\* the first was read, and no analysis call made.
C7_Witness ==
    /\ pc = "terminated"
    /\ Len(batches) = 1
    /\ Len(batches[1]) = 2
    /\ idx = 2
    /\ calls = <<>>

\* C8: the interrupt is caught and main ends: the loop is Terminated, not
\* crashed, pending is left as it was and from then on there is no
\* process_batch call, no analysis call, no report printed or written.
C8_PendingDiscarded ==
    /\ [][sigint' =>
             /\ pc' = "terminated"
             /\ UNCHANGED <<pending, batches, calls, printed, saved>>]_vars
    /\ [](sigint => (pc = "terminated" /\ ~ENABLED Next))

\* C8 witness: the loop is Terminated with files in pending that were in no
\* batch.
C8_Witness ==
    /\ pc = "terminated"
    /\ pending # <<>>
    /\ \A i \in DOMAIN pending : pending[i] \notin Range(Flatten(batches))

\* the analysis call failed
Failed(call) == call.outcome = "raise" \/ detect_provider(api_key) = "unknown"

\* C9: a failing backend call never stops the loop: analyze_with_ai returns a
\* text that begins with the cross mark, the text is printed like a report,
\* pending is cleared, the loop sleeps and polls again, and no later batch
\* holds a file of an earlier one.
C9_BackendFailureSurvived ==
    /\ [](pc # "crashed")
    /\ [][calls' # calls =>
             /\ pc' = "render"
             /\ IF Failed(calls'[Len(calls')])
                THEN report'[1] = CrossMark
                ELSE report' = Response]_vars
    /\ [][(pc = "render" /\ MainStep) =>
             (pc' = "clear" /\ printed' = Append(printed, report))]_vars
    /\ [][(pc = "clear" /\ MainStep) => (pc' = "sleep" /\ pending' = <<>>)]_vars
    /\ [][((pc = "sleep" /\ MainStep) => pc' = "list")]_vars
    /\ [][batches' # batches =>
             Range(batches'[Len(batches')]) \cap Range(Flatten(batches)) = {}]_vars

\* C9 witness: the vendor call of the first batch raised, its failure text
\* was printed, and the loop has polled again.
C9_Witness ==
    /\ api_key = GoodKey
    /\ Len(calls) >= 1
    /\ calls[1].outcome = "raise"
    /\ Len(printed) >= 1
    /\ printed[1][1] = CrossMark
    /\ tick = 2
    /\ pc = "check"
    /\ Range(batches[1]) \cap Range(pending) = {}

\* the aggregate that holds the frames of paths ps with empty content
RECURSIVE EmptyFrames(_)
EmptyFrames(ps) ==
    IF ps = <<>> THEN <<>>
    ELSE FrameOpen \o Head(ps) \o FrameMid \o Newline \o EmptyFrames(Tail(ps))

\* no file contributed any content to the aggregate d
NoContent(d) == d = EmptyFrames(FramePaths(d))

\* C10 as claimed: when every file of the batch is missing, unreadable or
\* empty, analyze_with_ai is not called.
C10_EmptyAggregateSkipped == pc = "analyze" => ~NoContent(data)

\* a read of the file at path fails: the path is missing, its bytes do not
\* decode, or it is a .json file whose text is not a JSON document
ReadFailure(path) ==
    LET e == Stat(path)
    IN  \/ e.kind = "absent"
        \/ e.kind = "file" /\ ~e.ok
        \/ /\ e.kind = "file"
           /\ e.ok
           /\ EndsWith(Lower(path), JsonExt)
           /\ ~JsonValid(Join(e.lines))

\* C11: a file whose read fails adds nothing to the aggregate and the loop
\* over the files goes on to the next file; the payload holds the frames of
\* the files that could be read, in the order of the batch; when every file
\* of the batch fails, and so when the only file fails, the backend is not
\* called
C11_ReadFailureContained ==
    [][LET n == Len(Files)
           frames == FramePaths(data)
       IN  /\ (pc = "read" /\ idx <= n /\ ReadFailure(Files[idx]))
                 => (data' = data /\ pc' = "read" /\ idx' = idx + 1)
           /\ pc = "analyze"
                 => frames = SelectSeq(Files, LAMBDA f :
                                 Stat(f).kind = "file" /\ ~ReadFailure(f))
           /\ (\A i \in 1..n : ReadFailure(Files[i]))
                 => (calls' = <<>> /\ pc' # "analyze")]_vars

\* a .json file of invalid syntax came first, a readable file second, and
\* the backend was called with the frame of the second alone
C11_Witness ==
    /\ pc = "done"
    /\ Len(Files) = 2
    /\ Files[1] = PathJoin(WatchDir, dJson)
    /\ Stat(Files[1]) = TextOf(2)
    /\ ReadFailure(Files[1])
    /\ Files[2] = PathJoin(WatchDir, aLog)
    /\ Len(calls) = 1
    /\ FramePaths(calls[1].log_data) = <<Files[2]>>

\* C12: reading a text file of M lines under --lines N adds the frame whose
\* content is the last N lines in their order when M > N > 0, and all M
\* lines when M <= N or N = 0
C12_TruncationCorrect ==
    [][(pc = "read" /\ idx <= Len(Files) /\ idx' = idx + 1) =>
          LET path == Files[idx]
              e == Stat(path)
              L == e.lines
              M == Len(L)
              N == lines
              expected == IF M > N /\ N > 0
                          THEN [i \in 1..N |-> L[M - N + i]]
                          ELSE L
          IN  (e.kind = "file" /\ e.ok /\ ~EndsWith(Lower(path), JsonExt))
                 => data' = data \o FrameOpen \o path \o FrameMid
                                 \o Join(expected) \o Newline]_vars

\* a file of three lines was read under --lines 2
C12_Witness ==
    /\ pc = "read"
    /\ idx = 2
    /\ lines = 2
    /\ Stat(Files[1]) = TextOf(3)
    /\ data = FrameOpen \o Files[1] \o FrameMid
                  \o <<"2", "\n", "3", "\n">> \o Newline

\* the name of the file a saved report went to: its path without the
\* reports directory and the separator in front
SavedName(i) == SubSeq(saved[i].path, Len(ReportsDir) + 2, Len(saved[i].path))

\* C13: sanitize_filename applied to its own result gives that result again,
\* for the requested name and for the name every report was saved under, and
\* a requested name whose last path component has no allowed character is
\* replaced by the fallback name
C13_SanitizeIdempotent ==
    /\ sanitize_filename(sanitize_filename(output)) = sanitize_filename(output)
    /\ \A i \in DOMAIN saved :
          /\ SavedName(i) = sanitize_filename(output)
          /\ save_report(report, SavedName(i)).path = saved[i].path
    /\ (\A i \in DOMAIN Basename(output) : Basename(output)[i] \notin SafeChars)
          => sanitize_filename(output) = FallbackName

\* reports were saved under a name that sanitising changed: one with a
\* directory part and a removed character, and one with no allowed character
C13_Witness ==
    /\ saved # <<>>
    /\ \/ output = <<"/", "a", "*">> /\ SavedName(1) = <<"a">>
       \/ output = <<"a", "/", "*">> /\ SavedName(1) = FallbackName

\* C14: every report is written to the reports directory under a name that
\* is not empty, has no separator and no disallowed character, and is
\* neither "." nor ".."
C14_SafeBasename ==
    \A i \in DOMAIN saved :
       /\ SubSeq(saved[i].path, 1, Len(ReportsDir) + 1) = ReportsDir \o <<"/">>
       /\ SavedName(i) # <<>>
       /\ Range(SavedName(i)) \subseteq SafeChars
       /\ SavedName(i) \notin {<<".">>, <<".", ".">>}

\* C15: every name the directory held at start-up is in seen in every state,
\* was never appended to pending, is not in pending and is in no batch
C15_BaselineNeverProcessed ==
    /\ baseline \subseteq seen
    /\ \A n \in baseline :
          /\ n \notin Range(AppendedNames)
          /\ PathOf(n) \notin Range(pending)
          /\ \A k \in DOMAIN batches : PathOf(n) \notin Range(batches[k])

\* a baseline file was deleted and created again, is there as a regular file
\* after two polls, and a batch of other files went by
C15_Witness ==
    /\ baseline = {cLog}
    /\ cLog \in recreated
    /\ fs[cLog].kind = "file"
    /\ tick = 2
    /\ pc = "sleep"
    /\ batches # <<>>
    /\ batches[1] # <<>>

\* C16: on the steps main takes, pending changes only by gaining one path
\* at its end or by being emptied after a batch that held all of it; a
\* threshold test that does not trigger, the sleep and the listing leave it
\* as it is; a trigger hands over every path of pending
C16_NoDetectedFileLost ==
    [][MainStep =>
         /\ \/ pending' = pending
            \/ /\ Len(pending') = Len(pending) + 1
               /\ SubSeq(pending', 1, Len(pending)) = pending
            \/ /\ pc = "clear"
               /\ pending' = <<>>
               /\ batches # <<>>
               /\ batches[Len(batches)] = pending
         /\ (pc = "check" /\ todo = <<>> /\ Len(pending) < threshold)
               => (pending' = pending /\ pc' = "sleep" /\ batches' = batches)
         /\ pc \in {"sleep", "list"} => pending' = pending
         /\ batches' # batches =>
               /\ batches' = Append(batches, pending)
               /\ pending' = pending]_vars

\* a file detected in the first iteration stayed in pending below the
\* threshold and was part of the batch the second iteration triggered
C16_Witness ==
    /\ threshold = 2
    /\ tick = 2
    /\ pc = "sleep"
    /\ Len(appended) = 2
    /\ appended[1].tick = 1
    /\ appended[2].tick = 2
    /\ batches = <<AppendedPaths>>
    /\ pending = <<>>

\* the step is one iteration of `for f in new_files`
ForStep == pc = "check" /\ todo # <<>> /\ todo' = Tail(todo)

\* C17: an iteration of the for loop over a name that is not a regular file
\* at the file-type check leaves seen and pending as they are, appends
\* nothing, and the loop goes on to the next name
C17_NonRegularSkipped ==
    [][(ForStep /\ fs[Head(todo)].kind # "file") =>
          /\ seen' = seen
          /\ pending' = pending
          /\ appended' = appended
          /\ pc' = "check"]_vars

\* a subdirectory was listed and passed over: the for loop is done and the
\* name is neither in seen nor in pending
C17_Witness ==
    /\ pc = "check"
    /\ todo = <<>>
    /\ tick = 1
    /\ \E n \in Names :
          /\ fs[n] = Dir
          /\ n \notin seen
          /\ PathOf(n) \notin Range(pending)

\* C18: a name that was listed and is gone at the file-type check is passed
\* over in that iteration, and for as long as no file of that name is
\* created again it is not in seen, not in pending and not appended
C18_VanishedNotRetried ==
    [][/\ (ForStep /\ fs[Head(todo)].kind = "absent") =>
             /\ seen' = seen
             /\ pending' = pending
             /\ appended' = appended
             /\ pc' = "check"
             /\ todo' = Tail(todo)
       /\ \A r \in lost : r \in lost' =>
             /\ r.f \notin seen'
             /\ PathOf(r.f) \notin Range(pending')
             /\ (appended' = appended \/ appended'[Len(appended')].f # r.f)]_vars

\* a file vanished between the listing and the check of the first
\* iteration, and the second iteration went by without it
C18_Witness ==
    /\ tick = 2
    /\ pc = "sleep"
    /\ \E r \in lost :
          /\ r.tick = 1
          /\ r.f \notin seen
          /\ r.f \notin Range(AppendedNames)

\* C19: under --watch with --output no two reports are saved to the same
\* path, and the later of two reports has the later time in its name
C19_DistinctReportNames ==
    \A i, j \in DOMAIN saved : i < j =>
       /\ saved[i].path # saved[j].path
       /\ \E s, t \in 0..(MaxTicks * SleepSecs) :
             /\ s < t
             /\ saved[i].path = PathJoin(ReportsDir,
                                   <<"r", "_">> \o IntStr(s) \o TxtExt)
             /\ saved[j].path = PathJoin(ReportsDir,
                                   <<"r", "_">> \o IntStr(t) \o TxtExt)

\* two triggers of one run each saved a report
C19_Witness ==
    /\ output = ReportName
    /\ Len(saved) = 2
    /\ saved[1].path = PathJoin(ReportsDir, <<"r","_","0",".","t","x","t">>)
    /\ saved[2].path = PathJoin(ReportsDir, <<"r","_","3",".","t","x","t">>)

\* the regular files among the new names of a poll
NewRegular == {n \in NewFiles : fs[n].kind = "file"}

====
